---------------------------- MODULE Spec2Model ----------------------------
(***************************************************************************)
(* The Payments facade of arcpaykit (arcpaykit/payments.py): six methods,  *)
(* each building one request and handing it to the injected client.        *)
(*                                                                         *)
(* A Python value is a tagged tuple, so that None, "", 0 and False are     *)
(* four different values, as they are for the code's `is not None` tests.  *)
(***************************************************************************)
EXTENDS Integers, Sequences, FiniteSets, TLC

VARIABLES
    given,      \* the client handed to Payments.__init__
    self,       \* the Payments object: [client |-> ...]
    calls,      \* the method calls made so far, in call order: [op, args]
    requests,   \* what the transport saw, in arrival order: [client, kwargs]
    replies,    \* what the transport answered, one entry per request
    results     \* what each call ended with (a return value or a raised error)

vars == <<given, self, calls, requests, replies, results>>

---------------------------------------------------------------------------
(* Python values *)

None == <<"none">>
PyStr(s) == <<"str", s>>
PyInt(i) == <<"int", i>>
PyBool(b) == <<"bool", b>>

\* str(v) of a str argument, as an f-string formats it.
Format(v) == v[2]

\* d[k] = v on a dict
Put(d, k, v) == (k :> v) @@ d

---------------------------------------------------------------------------
(* Bounds *)

\* The number of calls made on one facade in the multi-call behaviours.
MaxCalls == 3

---------------------------------------------------------------------------
(* The collaborator: the client handle and what its request() can do *)

DefaultClient == [name |-> "default", base_url |-> "DEFAULT_BASE_URL"]
CustomClient == [name |-> "custom", base_url |-> "http://localhost:3000"]
Clients == {DefaultClient, CustomClient}

\* request(path, method=..., data=...): the method used when the caller
\* passes none.
RequestDefaultMethod == "GET"

\* The HTTP method of a request() call with keyword arguments kw.
EffectiveMethod(kw) ==
    IF "method" \in DOMAIN kw THEN kw.method ELSE RequestDefaultMethod

Responses ==
    { [id |-> "pay_1", status |-> "created"],
      [id |-> "pay_1", status |-> "confirmed"] }

Errors ==
    { [type |-> "ArcPayError", message |-> "HTTP 404"],
      [type |-> "ConnectionError", message |-> "network unreachable"] }

\* request() returns a mapping or raises.
Outcomes ==
    { [kind |-> "return", value |-> r] : r \in Responses } \cup
    { [kind |-> "raise", value |-> e] : e \in Errors }

---------------------------------------------------------------------------
(* Argument domains *)

OptStr(s) == {None, PyStr(""), PyStr(s)}
OptBool == {None, PyBool(FALSE), PyBool(TRUE)}

PaymentIds == {PyStr("pay_1"), PyStr("pay_123")}

CreateArgs ==
    [ amount : {PyStr("100.00"), PyStr("")},
      merchant_wallet : {PyStr("0xabc"), PyStr("")},
      currency : OptStr("USDC"),
      settlement_currency : {None, PyStr("EURC"), PyStr("GBP")},
      payment_asset : {None, PyStr("USDC_BASE")},
      payment_chain_id : {None, PyInt(0), PyInt(-1)},
      conversion_path : {None, PyStr("{}")},
      estimated_fees : {None, PyStr("0.10")},
      description : {None, PyStr("Example payment")},
      customer_email : OptStr("customer@example.com"),
      expires_in_minutes : {None, PyInt(0), PyInt(-5), PyInt(30)},
      is_test : OptBool,
      gas_sponsored : OptBool ]

\* create(amount="100.00", merchant_wallet="0xabc")
CreateDefaults ==
    [ amount |-> PyStr("100.00"), merchant_wallet |-> PyStr("0xabc"),
      currency |-> None, settlement_currency |-> None,
      payment_asset |-> None, payment_chain_id |-> None,
      conversion_path |-> None, estimated_fees |-> None,
      description |-> None, customer_email |-> None,
      expires_in_minutes |-> None, is_test |-> None,
      gas_sponsored |-> None ]

TxArgs ==
    [ payment_id : PaymentIds,
      tx_hash : {PyStr("0xhash")},
      payer_wallet : {PyStr("0xpayer"), PyStr("")},
      customer_email : OptStr("customer@example.com"),
      customer_name : OptStr("Ada"),
      gas_sponsored : OptBool ]

FailArgs == [ payment_id : PaymentIds, reason : OptStr("declined") ]

IdArgs == [ payment_id : PaymentIds ]

---------------------------------------------------------------------------
(* Payments *)

\* What one method call does: the requests it hands to its client, what the
\* caller gets back, and the object afterwards.  o is what request() does.
\* (variant: a raised error is caught and an empty mapping returned)
ClientRequest_swallow(slf, kwargs, o) ==
    [ self |-> slf,
      sent |-> << [client |-> slf.client, kwargs |-> kwargs] >>,
      result |-> IF o.kind = "raise"
                 THEN [kind |-> "return", value |-> <<>>] ELSE o ]

ClientRequest(slf, kwargs, o) ==
    [ self |-> slf,
      sent |-> << [client |-> slf.client, kwargs |-> kwargs] >>,
      result |-> o ]

\* (variant: the constructor builds its own client)
PaymentsInit_default(client) == [client |-> DefaultClient]

PaymentsInit(client) == [client |-> client]

\* (variant: every parameter is copied into the body, None included)
create_data_nulls(a) ==
    [ amount |-> a.amount, merchantWallet |-> a.merchant_wallet,
      currency |-> a.currency, settlementCurrency |-> a.settlement_currency,
      paymentAsset |-> a.payment_asset, paymentChainId |-> a.payment_chain_id,
      conversionPath |-> a.conversion_path, estimatedFees |-> a.estimated_fees,
      description |-> a.description, customerEmail |-> a.customer_email,
      expiresInMinutes |-> a.expires_in_minutes, isTest |-> a.is_test,
      gasSponsored |-> a.gas_sponsored ]

create_data(a) ==
    LET d0 == [amount |-> a.amount, merchantWallet |-> a.merchant_wallet]
        d1 == IF a.currency # None
              THEN Put(d0, "currency", a.currency) ELSE d0
        d2 == IF a.settlement_currency # None
              THEN Put(d1, "settlementCurrency", a.settlement_currency) ELSE d1
        d3 == IF a.payment_asset # None
              THEN Put(d2, "paymentAsset", a.payment_asset) ELSE d2
        d4 == IF a.payment_chain_id # None
              THEN Put(d3, "paymentChainId", a.payment_chain_id) ELSE d3
        d5 == IF a.conversion_path # None
              THEN Put(d4, "conversionPath", a.conversion_path) ELSE d4
        d6 == IF a.estimated_fees # None
              THEN Put(d5, "estimatedFees", a.estimated_fees) ELSE d5
        d7 == IF a.description # None
              THEN Put(d6, "description", a.description) ELSE d6
        d8 == IF a.customer_email # None
              THEN Put(d7, "customerEmail", a.customer_email) ELSE d7
        d9 == IF a.expires_in_minutes # None
              THEN Put(d8, "expiresInMinutes", a.expires_in_minutes) ELSE d8
        d10 == IF a.is_test # None
               THEN Put(d9, "isTest", a.is_test) ELSE d9
        d11 == IF a.gas_sponsored # None
               THEN Put(d10, "gasSponsored", a.gas_sponsored) ELSE d10
    IN  d11

\* (variant: an empty amount is refused locally, before any request)
create_validating(slf, a, o) ==
    IF a.amount = PyStr("")
    THEN [ self |-> slf, sent |-> <<>>,
           result |-> [kind |-> "raise",
                       value |-> [type |-> "ValueError",
                                  message |-> "amount is required"]] ]
    ELSE ClientRequest(slf,
             [path |-> "/api/payments/create", method |-> "POST",
              data |-> create_data(a)], o)

create(slf, a, o) ==
    ClientRequest(slf,
        [path |-> "/api/payments/create", method |-> "POST",
         data |-> create_data(a)], o)

\* (variant: the id goes into a query string)
retrieve_by_query(slf, a, o) ==
    ClientRequest(slf,
        [path |-> "/api/payments?id=" \o Format(a.payment_id)], o)

retrieve(slf, a, o) ==
    ClientRequest(slf,
        [path |-> "/api/payments/" \o Format(a.payment_id)], o)

\* (variant: `if gas_sponsored:` in place of `is not None`)
submit_tx_data_truthy(a) ==
    LET d0 == [paymentId |-> a.payment_id, txHash |-> a.tx_hash,
               payerWallet |-> a.payer_wallet]
        d1 == IF a.customer_email # None
              THEN Put(d0, "customerEmail", a.customer_email) ELSE d0
        d2 == IF a.customer_name # None
              THEN Put(d1, "customerName", a.customer_name) ELSE d1
        d3 == IF a.gas_sponsored \notin {None, PyBool(FALSE)}
              THEN Put(d2, "gasSponsored", a.gas_sponsored) ELSE d2
    IN  d3

submit_tx_data(a) ==
    LET d0 == [paymentId |-> a.payment_id, txHash |-> a.tx_hash,
               payerWallet |-> a.payer_wallet]
        d1 == IF a.customer_email # None
              THEN Put(d0, "customerEmail", a.customer_email) ELSE d0
        d2 == IF a.customer_name # None
              THEN Put(d1, "customerName", a.customer_name) ELSE d1
        d3 == IF a.gas_sponsored # None
              THEN Put(d2, "gasSponsored", a.gas_sponsored) ELSE d2
    IN  d3

submit_tx(slf, a, o) ==
    ClientRequest(slf,
        [path |-> "/api/payments/submit-tx", method |-> "POST",
         data |-> submit_tx_data(a)], o)

confirm_data(a) ==
    LET d0 == [paymentId |-> a.payment_id, txHash |-> a.tx_hash,
               payerWallet |-> a.payer_wallet]
        d1 == IF a.customer_email # None
              THEN Put(d0, "customerEmail", a.customer_email) ELSE d0
        d2 == IF a.customer_name # None
              THEN Put(d1, "customerName", a.customer_name) ELSE d1
        d3 == IF a.gas_sponsored # None
              THEN Put(d2, "gasSponsored", a.gas_sponsored) ELSE d2
    IN  d3

\* (variant: the legacy method posts to the submit-tx route)
confirm_to_submit(slf, a, o) ==
    ClientRequest(slf,
        [path |-> "/api/payments/submit-tx", method |-> "POST",
         data |-> confirm_data(a)], o)

confirm(slf, a, o) ==
    ClientRequest(slf,
        [path |-> "/api/payments/confirm", method |-> "POST",
         data |-> confirm_data(a)], o)

\* (variant: `if reason:` in place of `is not None`)
fail_data_truthy(a) ==
    LET d0 == [paymentId |-> a.payment_id]
    IN  IF a.reason \notin {None, PyStr("")}
        THEN Put(d0, "reason", a.reason) ELSE d0

fail_data(a) ==
    LET d0 == [paymentId |-> a.payment_id]
    IN  IF a.reason # None THEN Put(d0, "reason", a.reason) ELSE d0

fail(slf, a, o) ==
    ClientRequest(slf,
        [path |-> "/api/payments/fail", method |-> "POST",
         data |-> fail_data(a)], o)

\* (variant: method="POST" left out)
expire_no_method(slf, a, o) ==
    ClientRequest(slf,
        [path |-> "/api/payments/expire",
         data |-> [paymentId |-> a.payment_id]], o)

\* (variant: the body dict is shared between calls, so keys of the previous
\* request's body stay in it)
expire_shared_dict(slf, a, o) ==
    LET prev == IF requests # <<>> /\ "data" \in DOMAIN requests[Len(requests)].kwargs
                THEN requests[Len(requests)].kwargs.data ELSE <<>>
    IN  ClientRequest(slf,
            [path |-> "/api/payments/expire", method |-> "POST",
             data |-> Put(prev, "paymentId", a.payment_id)], o)

expire(slf, a, o) ==
    ClientRequest(slf,
        [path |-> "/api/payments/expire", method |-> "POST",
         data |-> [paymentId |-> a.payment_id]], o)

---------------------------------------------------------------------------
(* The state machine *)

Init ==
    /\ given \in Clients
    /\ self = PaymentsInit(given)
    /\ calls = <<>>
    /\ requests = <<>>
    /\ replies = <<>>
    /\ results = <<>>

\* One call of method op with arguments a, e being what the method did.
Call(op, a, o, e) ==
    /\ calls' = Append(calls, [op |-> op, args |-> a])
    /\ requests' = requests \o e.sent
    /\ replies' = replies \o [i \in 1..Len(e.sent) |-> o]
    /\ results' = Append(results, e.result)
    /\ self' = e.self
    /\ UNCHANGED given

(* A single call on a fresh facade, over every argument combination. *)

CreateOnce ==
    /\ calls = <<>>
    /\ \E a \in CreateArgs, o \in Outcomes : Call("create", a, o, create(self, a, o))

RetrieveOnce ==
    /\ calls = <<>>
    /\ \E a \in IdArgs, o \in Outcomes : Call("retrieve", a, o, retrieve(self, a, o))

SubmitTxOnce ==
    /\ calls = <<>>
    /\ \E a \in TxArgs, o \in Outcomes : Call("submit_tx", a, o, submit_tx(self, a, o))

ConfirmOnce ==
    /\ calls = <<>>
    /\ \E a \in TxArgs, o \in Outcomes : Call("confirm", a, o, confirm(self, a, o))

FailOnce ==
    /\ calls = <<>>
    /\ \E a \in FailArgs, o \in Outcomes : Call("fail", a, o, fail(self, a, o))

ExpireOnce ==
    /\ calls = <<>>
    /\ \E a \in IdArgs, o \in Outcomes : Call("expire", a, o, expire(self, a, o))

NextCall ==
    \/ RetrieveOnce
    \/ SubmitTxOnce
    \/ ConfirmOnce
    \/ FailOnce
    \/ ExpireOnce
    \/ CreateOnce

InitCall == Init /\ given = CustomClient

SpecCall == InitCall /\ [][NextCall]_vars

(* Up to MaxCalls calls in a row on one facade. *)

\* the example's create call
ExampleCreate ==
    [ CreateDefaults EXCEPT
        !.merchant_wallet = PyStr("0x742d35Cc6634C0532925a3b844Bc9e7595f0bEb"),
        !.currency = PyStr("USDC"),
        !.description = PyStr("Example payment"),
        !.customer_email = PyStr("customer@example.com"),
        !.expires_in_minutes = PyInt(30) ]

SeqCreateArgs == {CreateDefaults, ExampleCreate}

SeqTxArgs ==
    { [ payment_id |-> PyStr("pay_1"), tx_hash |-> PyStr("0xhash"),
        payer_wallet |-> PyStr("0xpayer"), customer_email |-> None,
        customer_name |-> PyStr("Ada"), gas_sponsored |-> PyBool(FALSE) ] }

SeqFailArgs == { [payment_id |-> PyStr("pay_1"), reason |-> PyStr("declined")] }

SeqIdArgs == { [payment_id |-> PyStr("pay_1")] }

Create ==
    /\ Len(calls) < MaxCalls
    /\ \E a \in SeqCreateArgs, o \in Outcomes : Call("create", a, o, create(self, a, o))

Retrieve ==
    /\ Len(calls) < MaxCalls
    /\ \E a \in SeqIdArgs, o \in Outcomes : Call("retrieve", a, o, retrieve(self, a, o))

SubmitTx ==
    /\ Len(calls) < MaxCalls
    /\ \E a \in SeqTxArgs, o \in Outcomes : Call("submit_tx", a, o, submit_tx(self, a, o))

Confirm ==
    /\ Len(calls) < MaxCalls
    /\ \E a \in SeqTxArgs, o \in Outcomes : Call("confirm", a, o, confirm(self, a, o))

Fail ==
    /\ Len(calls) < MaxCalls
    /\ \E a \in SeqFailArgs, o \in Outcomes : Call("fail", a, o, fail(self, a, o))

Expire ==
    /\ Len(calls) < MaxCalls
    /\ \E a \in SeqIdArgs, o \in Outcomes : Call("expire", a, o, expire(self, a, o))

Next ==
    \/ Create
    \/ Retrieve
    \/ SubmitTx
    \/ Confirm
    \/ Fail
    \/ Expire

Spec == Init /\ [][Next]_vars

---------------------------------------------------------------------------
(* Properties *)

\* The request call i handed to the transport, when each call so far issued
\* exactly one.
OneRequestPerCall == Len(requests) = Len(calls) /\ Len(replies) = Len(calls)

CallsOf(ops) == {i \in 1..Len(calls) : calls[i].op \in ops}

\* The wire key of each optional parameter of create, as the service
\* expects it.
CreateWireKey ==
    [ currency |-> "currency",
      settlement_currency |-> "settlementCurrency",
      payment_asset |-> "paymentAsset",
      payment_chain_id |-> "paymentChainId",
      conversion_path |-> "conversionPath",
      estimated_fees |-> "estimatedFees",
      description |-> "description",
      customer_email |-> "customerEmail",
      expires_in_minutes |-> "expiresInMinutes",
      is_test |-> "isTest",
      gas_sponsored |-> "gasSponsored" ]

TxWireKey ==
    [ customer_email |-> "customerEmail",
      customer_name |-> "customerName",
      gas_sponsored |-> "gasSponsored" ]

\* d has exactly the keys `required` (wire key -> parameter) plus the wire
\* key of every optional parameter of a that is not None, each mapped to the
\* supplied value.
BodyIs(d, a, required, optional) ==
    /\ DOMAIN d = DOMAIN required \cup
                  {optional[p] : p \in {q \in DOMAIN optional : a[q] # None}}
    /\ \A k \in DOMAIN required : d[k] = a[required[k]]
    /\ \A p \in DOMAIN optional : a[p] # None => d[optional[p]] = a[p]

\* C1: the body create hands to client.request has exactly the keys amount
\* and merchantWallet plus the wire key of each optional parameter that is
\* not None, each mapped to the supplied value; None contributes no key and
\* a falsy value still contributes its key.
C1_CreateBodyPresence ==
    \A i \in CallsOf({"create"}) :
        /\ i <= Len(requests)
        /\ "data" \in DOMAIN requests[i].kwargs
        /\ BodyIs(requests[i].kwargs.data, calls[i].args,
                  [amount |-> "amount", merchantWallet |-> "merchant_wallet"],
                  CreateWireKey)

C1_Witness ==
    /\ Len(calls) = 1 /\ Len(requests) = 1
    /\ calls[1].op = "create"
    /\ calls[1].args.is_test = PyBool(FALSE)
    /\ calls[1].args.payment_chain_id = PyInt(0)
    /\ calls[1].args.currency = PyStr("")
    /\ calls[1].args.customer_email = PyStr("customer@example.com")
    /\ calls[1].args.gas_sponsored = None
    /\ DOMAIN requests[1].kwargs.data =
           {"amount", "merchantWallet", "isTest", "paymentChainId",
            "currency", "customerEmail"}

\* C2: each of create, submit_tx, confirm, fail and expire issues its request
\* with method POST to its own fixed path whatever its arguments, and the
\* body holds the operation's required wire keys; expire's body is exactly
\* {paymentId}.
C2_Path ==
    [ create |-> "/api/payments/create",
      submit_tx |-> "/api/payments/submit-tx",
      confirm |-> "/api/payments/confirm",
      fail |-> "/api/payments/fail",
      expire |-> "/api/payments/expire" ]

C2_Required ==
    [ create |-> {"amount", "merchantWallet"},
      submit_tx |-> {"paymentId", "txHash", "payerWallet"},
      confirm |-> {"paymentId", "txHash", "payerWallet"},
      fail |-> {"paymentId"},
      expire |-> {"paymentId"} ]

C2_PostToFixedPath ==
    \A i \in CallsOf(DOMAIN C2_Path) :
        /\ i <= Len(requests)
        /\ LET kw == requests[i].kwargs
               op == calls[i].op
           IN  /\ {"method", "data"} \subseteq DOMAIN kw
               /\ kw.method = "POST"
               /\ EffectiveMethod(kw) = "POST"
               /\ kw.path = C2_Path[op]
               /\ C2_Required[op] \subseteq DOMAIN kw.data
               /\ op = "expire" =>
                      kw.data = [paymentId |-> calls[i].args.payment_id]

C2_Witness ==
    /\ Len(calls) = 1 /\ Len(requests) = 1
    /\ calls[1] = [op |-> "expire", args |-> [payment_id |-> PyStr("pay_123")]]
    /\ requests[1].kwargs.path = "/api/payments/expire"
    /\ requests[1].kwargs.data = [paymentId |-> PyStr("pay_123")]

\* C3: retrieve(payment_id) issues exactly one request, a GET with no body,
\* to '/api/payments/' followed by payment_id, and returns what the
\* transport returned.
C3_RetrieveGet ==
    \A i \in CallsOf({"retrieve"}) :
        /\ OneRequestPerCall
        /\ LET kw == requests[i].kwargs
           IN  /\ EffectiveMethod(kw) = "GET"
               /\ "data" \notin DOMAIN kw
               /\ DOMAIN kw = {"path"}
               /\ kw.path = "/api/payments/" \o calls[i].args.payment_id[2]
        /\ replies[i].kind = "return" =>
               /\ results[i].kind = "return"
               /\ results[i].value = replies[i].value

C3_Witness ==
    /\ Len(calls) = 1 /\ Len(requests) = 1
    /\ calls[1] = [op |-> "retrieve", args |-> [payment_id |-> PyStr("pay_123")]]
    /\ requests[1].kwargs.path = "/api/payments/pay_123"
    /\ results[1] = [kind |-> "return",
                     value |-> [id |-> "pay_1", status |-> "confirmed"]]

\* C4: the body of submit_tx is exactly paymentId, txHash and payerWallet
\* mapped to the supplied arguments, plus customerEmail, customerName and
\* gasSponsored each present if and only if its argument is not None.
C4_SubmitTxBody ==
    \A i \in CallsOf({"submit_tx"}) :
        /\ i <= Len(requests)
        /\ "data" \in DOMAIN requests[i].kwargs
        /\ BodyIs(requests[i].kwargs.data, calls[i].args,
                  [paymentId |-> "payment_id", txHash |-> "tx_hash",
                   payerWallet |-> "payer_wallet"],
                  TxWireKey)

C4_Witness ==
    /\ Len(calls) = 1 /\ Len(requests) = 1
    /\ calls[1].op = "submit_tx"
    /\ calls[1].args.gas_sponsored = PyBool(FALSE)
    /\ calls[1].args.customer_email = None
    /\ calls[1].args.customer_name = PyStr("")
    /\ DOMAIN requests[1].kwargs.data =
           {"paymentId", "txHash", "payerWallet", "customerName", "gasSponsored"}

\* C5: for the same arguments confirm and submit_tx hand the transport the
\* same method and an equal body and differ only in the path; neither posts
\* to the other's path.
C5_ConfirmLikeSubmitTx ==
    \A i \in CallsOf({"submit_tx", "confirm"}) :
        /\ i <= Len(requests) /\ i <= Len(replies)
        /\ LET kw == requests[i].kwargs
               a == calls[i].args
               other == IF calls[i].op = "submit_tx"
                        THEN confirm(self, a, replies[i]).sent
                        ELSE submit_tx(self, a, replies[i]).sent
               own == IF calls[i].op = "submit_tx"
                      THEN "/api/payments/submit-tx" ELSE "/api/payments/confirm"
               others == IF calls[i].op = "submit_tx"
                         THEN "/api/payments/confirm" ELSE "/api/payments/submit-tx"
           IN  /\ Len(other) = 1
               /\ kw.path = own
               /\ other[1].kwargs.path = others
               /\ kw = [other[1].kwargs EXCEPT !.path = own]

C5_Witness ==
    /\ Len(calls) = 1 /\ Len(requests) = 1
    /\ calls[1].op = "confirm"
    /\ calls[1].args.customer_name = PyStr("Ada")
    /\ calls[1].args.gas_sponsored = PyBool(TRUE)
    /\ requests[1].kwargs.path = "/api/payments/confirm"
    /\ requests[1].kwargs.data = submit_tx_data(calls[1].args)

\* C6: the body of fail is exactly {paymentId} when reason is None and
\* exactly {paymentId, reason} when reason is anything else, the empty
\* string included.
C6_FailBody ==
    \A i \in CallsOf({"fail"}) :
        /\ i <= Len(requests)
        /\ "data" \in DOMAIN requests[i].kwargs
        /\ requests[i].kwargs.data =
               IF calls[i].args.reason = None
               THEN [paymentId |-> calls[i].args.payment_id]
               ELSE [paymentId |-> calls[i].args.payment_id,
                     reason |-> calls[i].args.reason]

C6_Witness ==
    /\ Len(calls) = 1 /\ Len(requests) = 1
    /\ calls[1].op = "fail"
    /\ calls[1].args.reason = PyStr("")
    /\ requests[1].kwargs.data =
           [paymentId |-> calls[1].args.payment_id, reason |-> PyStr("")]

\* C7: when the transport raises during a call, the call ends by raising
\* that same error, and no further request is issued for it.
C7_ErrorPropagates ==
    /\ OneRequestPerCall
    /\ Len(results) = Len(calls)
    /\ \A i \in 1..Len(calls) :
           replies[i].kind = "raise" => results[i] = replies[i]

C7_Witness ==
    /\ Len(calls) = 2 /\ Len(requests) = 2
    /\ calls[1].op = "fail"
    /\ replies[1] = [kind |-> "raise",
                     value |-> [type |-> "ConnectionError",
                                message |-> "network unreachable"]]
    /\ results[1] = replies[1]
    /\ calls[2].op = "create"
    /\ results[2].kind = "raise"

\* C8: the facade keeps the client it was built with, and every request of
\* every operation goes to that client and to no other; built on a client
\* with a custom base_url, none goes to a default one.
C8_RequestsOnGivenClient ==
    /\ self.client = given
    /\ self.client.base_url = given.base_url
    /\ \A i \in 1..Len(requests) :
           /\ requests[i].client = given
           /\ requests[i].client.base_url = given.base_url

C8_Witness ==
    /\ given.base_url = "http://localhost:3000"
    /\ self.client.base_url = "http://localhost:3000"
    /\ Len(requests) = 2
    /\ calls[1].op = "create" /\ calls[2].op = "retrieve"
    /\ requests[2].client.base_url = "http://localhost:3000"

\* C9: each call issues exactly one request, so the transport sees the
\* requests in call order and as many as there were calls; the request of a
\* call depends on that call's arguments alone, not on earlier calls; and no
\* operation changes the facade's client.
C9_PathOf(call) ==
    CASE call.op = "create" -> "/api/payments/create"
      [] call.op = "retrieve" -> "/api/payments/" \o call.args.payment_id[2]
      [] call.op = "submit_tx" -> "/api/payments/submit-tx"
      [] call.op = "confirm" -> "/api/payments/confirm"
      [] call.op = "fail" -> "/api/payments/fail"
      [] call.op = "expire" -> "/api/payments/expire"

C9_State ==
    /\ OneRequestPerCall
    /\ Len(results) = Len(calls)
    /\ \A i \in 1..Len(calls) :
           /\ requests[i].kwargs.path = C9_PathOf(calls[i])
           /\ results[i] = replies[i]
    /\ \A i, j \in 1..Len(calls) :
           calls[i] = calls[j] => requests[i] = requests[j]

C9_OneRequestPerCallInOrder ==
    [] C9_State /\ [][self'.client = self.client]_vars

C9_Witness ==
    /\ Len(calls) = 3 /\ Len(requests) = 3
    /\ calls[1].op = "expire"
    /\ calls[2].op = "fail"
    /\ calls[3] = calls[1]
    /\ requests[3] = requests[1]
    /\ requests[2] # requests[1]

\* C10: create validates nothing: whatever the arguments (an empty amount
\* or wallet, a zero or negative chain id or expiry, a settlement currency
\* other than USDC and EURC) it issues exactly one POST carrying the values
\* unchanged, and it ends with an error only when the transport raised it.
C10_CreateNoValidation ==
    \A i \in CallsOf({"create"}) :
        /\ OneRequestPerCall
        /\ Len(results) = Len(calls)
        /\ LET kw == requests[i].kwargs
               a == calls[i].args
           IN  /\ EffectiveMethod(kw) = "POST"
               /\ kw.data.amount = a.amount
               /\ kw.data.merchantWallet = a.merchant_wallet
               /\ a.payment_chain_id # None =>
                      kw.data.paymentChainId = a.payment_chain_id
               /\ a.expires_in_minutes # None =>
                      kw.data.expiresInMinutes = a.expires_in_minutes
               /\ a.settlement_currency # None =>
                      kw.data.settlementCurrency = a.settlement_currency
        /\ results[i].kind = "raise" => results[i] = replies[i]
        /\ replies[i].kind = "return" => results[i] = replies[i]

C10_Witness ==
    /\ Len(calls) = 1 /\ Len(requests) = 1
    /\ calls[1].op = "create"
    /\ calls[1].args.amount = PyStr("")
    /\ calls[1].args.merchant_wallet = PyStr("")
    /\ calls[1].args.payment_chain_id = PyInt(-1)
    /\ calls[1].args.expires_in_minutes = PyInt(-5)
    /\ calls[1].args.settlement_currency = PyStr("GBP")
    /\ requests[1].kwargs.data.amount = PyStr("")
    /\ requests[1].kwargs.data.paymentChainId = PyInt(-1)
    /\ requests[1].kwargs.data.settlementCurrency = PyStr("GBP")
    /\ results[1].kind = "return"

=============================================================================
